---- MODULE Spec2Model ----
(***************************************************************************)
(* Model of the Bayesian parameter / Normal-set core of beer:              *)
(*   - BayesianParameter (src/beer/models/parameters.py): natural-gradient *)
(*     accumulation, update, observer callbacks, precision/device          *)
(*     conversion;                                                         *)
(*   - NormalSet family (src/beer/models/normalset.py): construction,      *)
(*     accumulate, _split_natural_parameters, expected_log_likelihood,     *)
(*     marginal_log_likelihood;                                            *)
(*   - the boundary scorer (src/recipes/aud/utils/score_boundaries.py):    *)
(*     map_trans applied to the hypothesis and reference transcripts.      *)
(* Tensors are finite sequences of integers (exact arithmetic), matrices   *)
(* are sequences of rows, Python objects are identified by integers.       *)
(***************************************************************************)
EXTENDS Integers, Sequences, FiniteSets, TLC

VARIABLES
    prior,          \* BayesianParameter.prior.natural_hparams
    posterior,      \* BayesianParameter.posterior.natural_hparams
    natural_grad,   \* BayesianParameter.natural_grad
    tags,           \* dtype/device of prior, posterior and natural_grad
    callbacks,      \* BayesianParameter._callbacks (a set)
    calls,          \* per callback: how many times it has been invoked
    fired,          \* invocations made by the last operation, in order
    accs,           \* history: statistics accumulated since construction/last update
    grad0,          \* history: natural_grad when the current round began
    lastround,      \* history: the statistics of the round the last update closed
    last,           \* history: the last operation and its inputs
    nops,           \* number of operations performed (bounded by MaxOps)
    conv,           \* history: the last conversion, its target and where it failed
    nset,           \* the NormalSet built by create (or NoSet)
    call,           \* the last NormalSet operation: inputs and result
    members,        \* BayesianParameterSet.__parameters: the member parameters
    setcall,        \* the last BayesianParameterSet operation and how it ended
    mapping,        \* boundary scorer: the mapping table (token -> label)
    loaded,         \* history: the mapping and transcripts as read from the files
    trans,          \* boundary scorer: the hyp and ref transcripts
    mstage          \* boundary scorer: position in main

pvars == <<prior, posterior, natural_grad, callbacks, calls, fired, accs,
           grad0, lastround, last, nops>>
cvars == <<tags, conv>>
svars == <<nset, call>>
bvars == <<members, setcall>>
mvars == <<mapping, loaded, trans, mstage>>
vars == <<prior, posterior, natural_grad, tags, callbacks, calls, fired, accs,
          grad0, lastround, last, nops, conv, nset, call, members, setcall,
          mapping, loaded, trans, mstage>>

----------------------------------------------------------------------------
(* Bounds of the model.                                                    *)

MaxOps == 4        \* operations on one BayesianParameter in a behaviour
MaxConvs == 2      \* conversions of one BayesianParameter in a behaviour
F32Exact == 4      \* largest magnitude the model's float32 holds exactly
SplitMaxK == 5     \* components of a set whose natural parameters are split
SplitMaxD == 4     \* dimension of a set whose natural parameters are split
MaxSlack == 1      \* how far an input's length may be from the layout's length
MaxK == 2          \* components of a set that accumulates / evaluates statistics
MaxD == 2          \* dimension of a set that accumulates / evaluates statistics
MaxN == 2          \* rows of a statistics matrix
MaxMembers == 2    \* parameters in a BayesianParameterSet
MaxTokens == 3     \* tokens in a transcript

----------------------------------------------------------------------------
(* Vector arithmetic (torch elementwise operations on 1-d tensors).        *)

VAdd(a, b) == [i \in DOMAIN a |-> a[i] + b[i]]
VSub(a, b) == [i \in DOMAIN a |-> a[i] - b[i]]
ZerosLike(a) == [i \in DOMAIN a |-> 0]

\* A learning rate is a rational <<num, den>>; lrate * v.
VScale(lr, v) == [i \in DOMAIN v |-> (lr[1] * v[i]) \div lr[2]]
\* The product is representable in the integer units of the model.
ExactScale(lr, v) == \A i \in DOMAIN v : (lr[1] * v[i]) % lr[2] = 0

RECURSIVE SumSeq(_)
SumSeq(s) == IF s = <<>> THEN 0 ELSE Head(s) + SumSeq(Tail(s))

\* All orderings of the elements of a finite set, as sequences.
Orders(S) ==
    {f \in [1..Cardinality(S) -> S] : \A i, j \in DOMAIN f : i # j => f[i] # f[j]}

----------------------------------------------------------------------------
(* Inputs of the BayesianParameter machine.                                *)

PriorChoices == {<<0, 0>>, <<1, 2>>}
ConvChoices == {<<1, 2>>, <<5, 3>>}
PosteriorChoices == {<<0, 0>>, <<1, 2>>, <<2, 1>>}
Stats == {<<1, 0>>, <<0, 2>>, <<2, 2>>}
LRates == {<<1, 1>>, <<1, 2>>}
Callbacks == {"cb1", "cb2"}

DTypes == {"float32", "float64"}
Devices == {"cpu", "cuda"}
DefaultTag == [dtype |-> "float32", device |-> "cpu"]
Members == {"prior", "posterior", "natural_grad"}

NoLast == [op |-> "init", lrate |-> <<1, 1>>, stats |-> <<>>]
NoConv == [op |-> "none", failed |-> "none", before |-> [m \in Members |-> DefaultTag],
           dtype |-> "float32", device |-> "cpu"]
NoSet == [built |-> FALSE]
NoCall == [op |-> "none"]

\* No BayesianParameterSet and no scorer run in this behaviour.
NoParamSet == members = <<>> /\ setcall = NoCall
NoScorer == mapping = <<>> /\ loaded = {} /\ trans = <<>> /\ mstage = "idle"

----------------------------------------------------------------------------
(* BayesianParameter: construction.                                        *)

\* __init__: no callbacks, natural_grad = zeros_like(prior.natural_hparams)
\* with the prior's dtype and device.
ParamInit(pr, po, tag) ==
    /\ prior = pr
    /\ posterior = po
    /\ natural_grad = ZerosLike(pr)
    /\ tags = [m \in Members |-> tag]
    /\ callbacks = {}
    /\ calls = [c \in Callbacks |-> 0]
    /\ fired = <<>>
    /\ accs = <<>>
    /\ grad0 = ZerosLike(pr)
    /\ lastround = <<>>
    /\ last = NoLast
    /\ nops = 0
    /\ conv = NoConv

----------------------------------------------------------------------------
(* BayesianParameter: natural gradient.                                    *)

AccumulateOverwrite(grad, pr, po, acc_stats) == VSub(VAdd(pr, acc_stats), po)

\* accumulate_natural_grad: natural_grad += prior + acc_stats - posterior
AccumulateNaturalGrad(grad, pr, po, acc_stats) ==
    VAdd(grad, VSub(VAdd(pr, acc_stats), po))

UpdatedPosteriorFullStep(po, grad, lr) == VAdd(po, grad)

\* natural_grad_update: posterior.natural_hparams + lrate * natural_grad
UpdatedPosterior(po, grad, lr) == VAdd(po, VScale(lr, grad))

\* _dispatch: for callback in self._callbacks: callback().  Each callback is a
\* zero-argument observer; `observed` is the posterior it finds when it runs.
Dispatch(order, observed) ==
    [i \in 1..Len(order) |-> [cb |-> order[i], nargs |-> 0, saw |-> observed]]

UpdateDispatchFirst(po, grad, lr, order) ==
    [posterior |-> UpdatedPosterior(po, grad, lr), fired |-> Dispatch(order, po)]

\* natural_grad_update as a whole: assign the posterior, then _dispatch().
NaturalGradUpdateResult(po, grad, lr, order) ==
    LET newpo == UpdatedPosterior(po, grad, lr)
    IN  [posterior |-> newpo, fired |-> Dispatch(order, newpo)]

Invocations(f, c) == Cardinality({i \in DOMAIN f : f[i].cb = c})

accumulate_natural_grad(acc_stats) ==
    /\ nops < MaxOps
    /\ natural_grad' = AccumulateNaturalGrad(natural_grad, prior, posterior, acc_stats)
    /\ accs' = Append(accs, acc_stats)
    /\ fired' = <<>>
    /\ last' = [op |-> "accumulate", lrate |-> <<1, 1>>, stats |-> acc_stats]
    /\ nops' = nops + 1
    /\ UNCHANGED <<prior, posterior, callbacks, calls, grad0, lastround>>

\* The set of callbacks is iterated in an unspecified order.
natural_grad_update(lrate) ==
    /\ nops < MaxOps
    /\ ExactScale(lrate, natural_grad)
    /\ \E order \in Orders(callbacks) :
         LET r == NaturalGradUpdateResult(posterior, natural_grad, lrate, order)
         IN  /\ posterior' = r.posterior
             /\ fired' = r.fired
             /\ calls' = [c \in Callbacks |-> calls[c] + Invocations(r.fired, c)]
    /\ lastround' = accs
    /\ accs' = <<>>
    /\ grad0' = natural_grad
    /\ last' = [op |-> "update", lrate |-> lrate, stats |-> <<>>]
    /\ nops' = nops + 1
    /\ UNCHANGED <<prior, natural_grad, callbacks>>

register_callback(callback) ==
    /\ nops < MaxOps
    /\ callbacks' = callbacks \cup {callback}
    /\ fired' = <<>>
    /\ last' = [op |-> "register", lrate |-> <<1, 1>>, stats |-> <<>>]
    /\ nops' = nops + 1
    /\ UNCHANGED <<prior, posterior, natural_grad, calls, accs, grad0, lastround>>

\* expected_value reads posterior.expected_sufficient_statistics only.
expected_value ==
    /\ nops < MaxOps
    /\ fired' = <<>>
    /\ last' = [op |-> "expected_value", lrate |-> <<1, 1>>, stats |-> <<>>]
    /\ nops' = nops + 1
    /\ UNCHANGED <<prior, posterior, natural_grad, callbacks, calls, accs, grad0,
                   lastround>>

InitParam ==
    /\ \E pr \in PriorChoices, po \in PosteriorChoices : ParamInit(pr, po, DefaultTag)
    /\ nset = NoSet
    /\ call = NoCall
    /\ NoParamSet
    /\ NoScorer

NextParam ==
    \/ \E s \in Stats : accumulate_natural_grad(s) /\ UNCHANGED <<cvars, svars, bvars, mvars>>
    \/ \E lr \in LRates : natural_grad_update(lr) /\ UNCHANGED <<cvars, svars, bvars, mvars>>
    \/ \E c \in Callbacks : register_callback(c) /\ UNCHANGED <<cvars, svars, bvars, mvars>>
    \/ expected_value /\ UNCHANGED <<cvars, svars, bvars, mvars>>

SpecParam == InitParam /\ [][NextParam]_vars

----------------------------------------------------------------------------
(* BayesianParameter: precision and device conversion.                     *)

\* Value of x after conversion to float32: beyond F32Exact the grid is coarser.
Round32(x) == IF x <= F32Exact /\ x >= -F32Exact THEN x ELSE 2 * (x \div 2)

\* .float() / .double() / .to(device) of one member: its new tag and value.
ConvertTag(tag, op, device) ==
    CASE op = "float_"  -> [tag EXCEPT !.dtype = "float32"]
      [] op = "double_" -> [tag EXCEPT !.dtype = "float64"]
      [] op = "to_"     -> [tag EXCEPT !.device = device]

ConvertValue(v, op) ==
    IF op = "float_" THEN [i \in DOMAIN v |-> Round32(v[i])] ELSE v

\* float_ / double_ / to_ as a whole: three assignments in sequence,
\*     self.prior = ...; self.posterior = ...; self.natural_grad = ...
\* `failat` names the conversion call that raises ("none": all succeed); an
\* exception leaves the assignments already made in place.
ConvertResult(st, op, device, failat) ==
    LET done == CASE failat = "prior"        -> {}
                  [] failat = "posterior"    -> {"prior"}
                  [] failat = "natural_grad" -> {"prior", "posterior"}
                  [] failat = "none"         -> Members
    IN  [tags |-> [m \in Members |->
                     IF m \in done THEN ConvertTag(st.tags[m], op, device)
                                   ELSE st.tags[m]],
         vals |-> [m \in Members |->
                     IF m \in done THEN ConvertValue(st.vals[m], op)
                                   ELSE st.vals[m]]]

FailPoints == Members \cup {"none"}

Convert(op, device, failat) ==
    /\ nops < MaxConvs
    /\ LET st == [tags |-> tags,
                  vals |-> [prior |-> prior, posterior |-> posterior,
                            natural_grad |-> natural_grad]]
           r == ConvertResult(st, op, device, failat)
       IN  /\ tags' = r.tags
           /\ prior' = r.vals.prior
           /\ posterior' = r.vals.posterior
           /\ natural_grad' = r.vals.natural_grad
    /\ conv' = [op |-> op, failed |-> failat, before |-> tags,
                dtype |-> (IF op = "float_" THEN "float32" ELSE "float64"),
                device |-> device]
    /\ nops' = nops + 1
    /\ UNCHANGED <<callbacks, calls, fired, accs, grad0, lastround, last>>

float_ == \E f \in FailPoints : Convert("float_", "cpu", f)
double_ == \E f \in FailPoints : Convert("double_", "cpu", f)
to_(device) == \E f \in FailPoints : Convert("to_", device, f)

InitConv ==
    /\ \E pr \in ConvChoices, po \in ConvChoices, dt \in DTypes, dv \in Devices :
         ParamInit(pr, po, [dtype |-> dt, device |-> dv])
    /\ nset = NoSet
    /\ call = NoCall
    /\ NoParamSet
    /\ NoScorer

NextConv ==
    \/ float_ /\ UNCHANGED <<svars, bvars, mvars>>
    \/ double_ /\ UNCHANGED <<svars, bvars, mvars>>
    \/ \E d \in Devices : to_(d) /\ UNCHANGED <<svars, bvars, mvars>>

SpecConv == InitConv /\ [][NextConv]_vars

\* C10: after float_, double_ or to_ returns or fails, prior, posterior and
\* natural_grad are either all converted or all as they were before the call.
C10_ConversionAtomic ==
    conv.op # "none" =>
        \/ \A m \in Members : tags[m] = ConvertTag(conv.before[m], conv.op, conv.device)
        \/ \A m \in Members : tags[m] = conv.before[m]

----------------------------------------------------------------------------
(* BayesianParameterSet: bulk precision and device conversion.             *)

\* The methods class BayesianParameter defines.
BayesianParameterMethods ==
    {"__init__", "__hash__", "_dispatch", "register_callback", "expected_value",
     "accumulate_natural_grad", "natural_grad_update", "kl_div",
     "float_", "double_", "to_"}

\* The method BayesianParameterSet.float_ / double_ / to_ calls on each member:
\*     param.float()      param.double()      param.to(device)
SetCalls(op) ==
    CASE op = "float_"  -> "float"
      [] op = "double_" -> "double"
      [] op = "to_"     -> "to"

\* param.<method>(...) on a BayesianParameter: AttributeError when the class
\* has no such method, else the in-place conversion of its three members.
ParamCall(param, method, device) ==
    IF method \in BayesianParameterMethods
    THEN [raised |-> FALSE,
          param |-> [param EXCEPT !.tags =
                        [m \in Members |-> ConvertTag(param.tags[m], method, device)]]]
    ELSE [raised |-> TRUE, param |-> param]

\* for param in self.__parameters: param.<method>(...): the loop ends at the
\* first call that raises.
RECURSIVE SetConvertLoop(_, _, _, _)
SetConvertLoop(params, i, method, device) ==
    IF i > Len(params) THEN [raised |-> FALSE, params |-> params]
    ELSE LET r == ParamCall(params[i], method, device)
         IN  IF r.raised THEN [raised |-> TRUE, params |-> params]
             ELSE SetConvertLoop([params EXCEPT ![i] = r.param], i + 1, method, device)

\* BayesianParameterSet.float_ / double_ / to_
SetConvert(op, device) ==
    /\ LET r == SetConvertLoop(members, 1, SetCalls(op), device)
       IN  /\ members' = r.params
           /\ setcall' = [op |-> op, device |-> device, raised |-> r.raised,
                          before |-> members]
    /\ UNCHANGED <<pvars, cvars, svars, mvars>>

set_float_ == SetConvert("float_", "cpu")
set_double_ == SetConvert("double_", "cpu")
set_to_(device) == SetConvert("to_", device)

\* A member parameter as BayesianParameter.__init__ leaves it: prior, posterior
\* and natural_grad with one dtype and device.
MemberInit(id, tag) == [id |-> id, tags |-> [m \in Members |-> tag]]

InitPSet ==
    /\ ParamInit(<<0, 0>>, <<0, 0>>, DefaultTag)
    /\ nset = NoSet
    /\ call = NoCall
    /\ \E n \in 0..MaxMembers :
         \E tg \in [1..n -> [dtype : DTypes, device : Devices]] :
            members = [i \in 1..n |-> MemberInit(i, tg[i])]
    /\ setcall = NoCall
    /\ NoScorer

NextPSet ==
    \/ set_float_
    \/ set_double_
    \/ \E d \in Devices : set_to_(d)

SpecPSet == InitPSet /\ [][NextPSet]_vars

\* C11: BayesianParameterSet.float_, double_ and to_ complete without error and
\* leave every member's prior, posterior and natural_grad converted, the set
\* keeping its length and order.
C11_SetConversionConverts ==
    setcall.op # "none" =>
        /\ ~setcall.raised
        /\ Len(members) = Len(setcall.before)
        /\ \A i \in DOMAIN members :
             /\ members[i].id = setcall.before[i].id
             /\ \A m \in Members :
                  members[i].tags[m]
                      = ConvertTag(setcall.before[i].tags[m], setcall.op, setcall.device)

----------------------------------------------------------------------------
(* Boundary scorer: map_trans.  A transcript (dict utterance -> tokens, in  *)
(* file order) is a sequence of utterances, an utterance a sequence of     *)
(* tokens; the mapping table (dict) is a function on the tokens it holds.  *)

Tokens == {"a", "b"}
FileLabels == {"x"}

\* '<oov_' + str(oov_i) + '>'
OovLabel(oov_i) == "<oov_" \o ToString(oov_i) \o ">"

\* mapfile[token] = label
DictSet(mapfile, token, label) ==
    [t \in DOMAIN mapfile \cup {token} |-> IF t = token THEN label ELSE mapfile[t]]

\* The inner loop of map_trans over the tokens i.. of one utterance; st holds
\* mapfile, oov_i and tmp.
RECURSIVE MapTokens(_, _, _)
MapTokens(utt_trans, i, st) ==
    IF i > Len(utt_trans) THEN st
    ELSE LET token == utt_trans[i]
             absent == token \notin DOMAIN st.mapfile
             mapfile == IF absent
                        THEN DictSet(st.mapfile, token, OovLabel(st.oov_i))
                        ELSE st.mapfile
             oov_i == IF absent THEN st.oov_i + 1 ELSE st.oov_i
         IN  MapTokens(utt_trans, i + 1,
                       [mapfile |-> mapfile, oov_i |-> oov_i,
                        tmp |-> Append(st.tmp, mapfile[token])])

\* The outer loop of map_trans over the utterances u.. of the transcript.
RECURSIVE MapUtts(_, _, _)
MapUtts(tr, u, st) ==
    IF u > Len(tr) THEN st
    ELSE LET r == MapTokens(tr[u], 1,
                            [mapfile |-> st.mapfile, oov_i |-> st.oov_i, tmp |-> <<>>])
         IN  MapUtts(tr, u + 1,
                     [mapfile |-> r.mapfile, oov_i |-> r.oov_i,
                      new_trans |-> Append(st.new_trans, r.tmp)])

\* map_trans(trans, mapfile): new_trans = {}; oov_i = 1; the loops; the
\* mapfile argument is updated in place.
MapTrans(tr, mapfile) ==
    MapUtts(tr, 1, [mapfile |-> mapfile, oov_i |-> 1, new_trans |-> <<>>])

\* main: hyp = map_trans(hyp, mapping)
map_hyp ==
    /\ mstage = "loaded"
    /\ LET r == MapTrans(trans.hyp, mapping)
       IN  /\ trans' = [trans EXCEPT !.hyp = r.new_trans]
           /\ mapping' = r.mapfile
    /\ mstage' = "hyp"
    /\ UNCHANGED <<loaded, pvars, cvars, svars, bvars>>

\* main: ref = map_trans(ref, mapping)
map_ref ==
    /\ mstage = "hyp"
    /\ LET r == MapTrans(trans.ref, mapping)
       IN  /\ trans' = [trans EXCEPT !.ref = r.new_trans]
           /\ mapping' = r.mapfile
    /\ mstage' = "done"
    /\ UNCHANGED <<loaded, pvars, cvars, svars, bvars>>

\* A transcript file: lines of an utterance id and at least one token.
Utterances == UNION {[1..n -> Tokens] : n \in 1..MaxTokens}
Transcripts ==
    {tr \in UNION {[1..m -> Utterances] : m \in 1..MaxTokens} :
        SumSeq([u \in 1..Len(tr) |-> Len(tr[u])]) <= MaxTokens}

\* main after load_transcript (twice) and load_mapping.
InitMap ==
    /\ ParamInit(<<0, 0>>, <<0, 0>>, DefaultTag)
    /\ nset = NoSet
    /\ call = NoCall
    /\ NoParamSet
    /\ \E S \in SUBSET Tokens : \E m \in [S -> FileLabels] : mapping = m
    /\ \E hyp \in Transcripts, ref \in Transcripts : trans = [hyp |-> hyp, ref |-> ref]
    /\ loaded = [mapping |-> mapping, hyp |-> trans.hyp, ref |-> trans.ref]
    /\ mstage = "loaded"

NextMap ==
    \/ map_hyp
    \/ map_ref

SpecMap == InitMap /\ [][NextMap]_vars

\* C15: once map_trans has been applied to hyp and then to ref with the same
\* mapping table, two different tokens that were absent from the mapping file
\* never carry the same '<oov_i>' label, and every token of both mapped
\* transcripts carries the one label the table holds for it.
C15_OovLabelsInjective ==
    mstage = "done" =>
        /\ \A s, t \in DOMAIN mapping \ DOMAIN loaded.mapping :
              s # t => mapping[s] # mapping[t]
        /\ \A u \in DOMAIN trans.hyp : \A i \in DOMAIN trans.hyp[u] :
              trans.hyp[u][i] = mapping[loaded.hyp[u][i]]
        /\ \A u \in DOMAIN trans.ref : \A i \in DOMAIN trans.ref[u] :
              trans.ref[u][i] = mapping[loaded.ref[u][i]]

----------------------------------------------------------------------------
(* Python / torch indexing on sequences (0-based indices, negative indices *)
(* counted from the end, slices clamped to the sequence).                  *)

Min(a, b) == IF a < b THEN a ELSE b
Max(a, b) == IF a > b THEN a ELSE b

\* Position of slice bound i in a sequence of length n.
PyBound(i, n) == IF i < 0 THEN Max(i + n, 0) ELSE Min(i, n)

\* s[a:b]
PySlice(s, a, b) ==
    LET lo == PyBound(a, Len(s))
        hi == PyBound(b, Len(s))
    IN  IF hi <= lo THEN <<>> ELSE [i \in 1..(hi - lo) |-> s[lo + i]]

\* s[i] is defined (no IndexError)
PyIndexOk(s, i) == i < Len(s) /\ i >= -Len(s)
\* s[i]
PyIndex(s, i) == IF i < 0 THEN s[Len(s) + i + 1] ELSE s[i + 1]

\* t.view(rows, cols) of a 1-d tensor: defined only for rows * cols elements.
ViewOk(s, rows, cols) == Len(s) = rows * cols
View(s, rows, cols) == [r \in 1..rows |-> [c \in 1..cols |-> s[(r - 1) * cols + c]]]

\* t.reshape(-1, 1) of a 1-d tensor: one row per element (undefined when empty).
ColumnOf(s) == [r \in 1..Len(s) |-> <<s[r]>>]

\* torch.cat([a, b], dim=-1) of two matrices with the same number of rows.
CatRows(a, b) == [r \in 1..Len(a) |-> a[r] \o b[r]]

\* m.view(-1) of a contiguous matrix: its rows one after the other.
RECURSIVE Flatten(_)
Flatten(m) == IF m = <<>> THEN <<>> ELSE Head(m) \o Flatten(Tail(m))

Width(m) == IF m = <<>> THEN 0 ELSE Len(m[1])
\* m[:, a:b] and m[:, j]
ColSlice(m, a, b) == [r \in 1..Len(m) |-> PySlice(m[r], a, b)]
Column(m, j) == [r \in 1..Len(m) |-> PyIndex(m[r], j)]
\* m.sum(dim=0)
SumRows(m) == [c \in 1..Width(m) |-> SumSeq([r \in 1..Len(m) |-> m[r][c]])]
Dot(a, b) == SumSeq([i \in 1..Len(a) |-> a[i] * b[i]])
\* a.t() @ b for a (N x K) and b (N x S): a K x S matrix.
TransposeMatMul(a, b) ==
    [k \in 1..Width(a) |->
        [c \in 1..Width(b) |-> SumSeq([n \in 1..Len(a) |-> a[n][k] * b[n][c]])]]

----------------------------------------------------------------------------
(* NormalSet: construction.  Distribution objects are numbered in the      *)
(* order in which they are constructed.                                    *)

CovTypes == {"full", "diagonal", "isotropic"}

\* Normal.create builds one Normal model with its own prior and posterior;
\* `next` is the number of the first object it constructs.
NormalCreate(next) == [prior |-> next, posterior |-> next + 1]

\* NormalSetNonSharedCovariance.create: one Normal for the prior, then one
\* Normal per component for its posterior.
NonSharedCreateArgs(size) ==
    [prior |-> NormalCreate(1).prior,
     posteriors |-> [i \in 1..size |-> NormalCreate(2 * i + 1).posterior]]

NonSharedInitFirstPosterior(pr, posteriors) ==
    [k \in 1..Len(posteriors) |-> [prior |-> pr, posterior |-> posteriors[1]]]

\* NormalSetNonSharedCovariance.__init__:
\*     BayesianParameterSet([BayesianParameter(prior, post) for post in posteriors])
NonSharedInit(pr, posteriors) ==
    [k \in 1..Len(posteriors) |-> [prior |-> pr, posterior |-> posteriors[k]]]

\* NormalSetShared*Covariance.create: prior = Joint...Prior(...),
\* posterior = Joint...Prior(...): two constructor calls.
SharedCreateArgs == [prior |-> 1, posterior |-> 2]

\* NormalSetSharedCovariance.__init__: one BayesianParameter(prior, posterior).
SharedInit(pr, po) == <<[prior |-> pr, posterior |-> po]>>

\* NormalSet.create / NormalSet*Covariance.create for a valid cov_type.
CreateResult(shared_cov, cov_type, size, dim) ==
    [built |-> TRUE, shared |-> shared_cov, cov_type |-> cov_type,
     size |-> size, dim |-> dim,
     params |-> IF shared_cov
                THEN SharedInit(SharedCreateArgs.prior, SharedCreateArgs.posterior)
                ELSE LET a == NonSharedCreateArgs(size)
                     IN  NonSharedInit(a.prior, a.posteriors)]

\* The cov_type arguments tried: the three known names and an unknown one.
CovTypeArgs == CovTypes \cup {"spherical"}

\* Normal.create(mean, cov, prior_strength, cov_type) raises for a cov_type it
\* does not know ("At this point, we are sure that the cov_type is valid").
NormalCreateRaises(cov_type) == cov_type \notin CovTypes

\* NormalSetNonSharedCovariance.create: Normal.create comes first, then
\*     if cov_type == 'full' ... elif cov_type == 'diagonal' ... else isotropic
NonSharedDispatch(cov_type) ==
    IF NormalCreateRaises(cov_type) THEN [raised |-> TRUE, cls |-> "none"]
    ELSE [raised |-> FALSE,
          cls |-> CASE cov_type = "full"     -> "full"
                    [] cov_type = "diagonal" -> "diagonal"
                    [] OTHER                 -> "isotropic"]

SharedDispatchElseIsotropic(cov_type) ==
    [raised |-> FALSE,
     cls |-> CASE cov_type = "full"     -> "full"
               [] cov_type = "diagonal" -> "diagonal"
               [] OTHER                 -> "isotropic"]

\* NormalSetSharedCovariance.create:
\*     if 'full' ... elif 'diagonal' ... elif 'isotropic' ... else: raise ValueError
SharedDispatch(cov_type) ==
    CASE cov_type = "full"      -> [raised |-> FALSE, cls |-> "full"]
      [] cov_type = "diagonal"  -> [raised |-> FALSE, cls |-> "diagonal"]
      [] cov_type = "isotropic" -> [raised |-> FALSE, cls |-> "isotropic"]
      [] OTHER                  -> [raised |-> TRUE, cls |-> "none"]

\* NormalSet.create: if shared_cov: NormalSetSharedCovariance.create(...)
\*                    else: NormalSetNonSharedCovariance.create(...)
CreateDispatch(shared_cov, cov_type) ==
    IF shared_cov THEN SharedDispatch(cov_type) ELSE NonSharedDispatch(cov_type)

\* An exception leaves the caller without a set; otherwise the set of the
\* class selected is returned.
create(shared_cov, cov_type, size, dim) ==
    /\ ~nset.built
    /\ LET d == CreateDispatch(shared_cov, cov_type)
       IN  /\ nset' = IF d.raised THEN NoSet
                      ELSE CreateResult(shared_cov, d.cls, size, dim)
           /\ call' = [op |-> "create", shared_cov |-> shared_cov,
                       cov_type |-> cov_type, raised |-> d.raised]

\* C12: NormalSet.create with a cov_type outside {full, diagonal, isotropic}
\* raises and returns no set, with shared_cov true and false alike; a set is
\* built only for a known cov_type and is of exactly that type.
C12_UnknownCovTypeRaises ==
    /\ nset.built => nset.cov_type \in CovTypes
    /\ call.op = "create" =>
          /\ call.raised <=> call.cov_type \notin CovTypes
          /\ call.raised => ~nset.built
          /\ ~call.raised =>
                /\ nset.built
                /\ nset.cov_type = call.cov_type
                /\ nset.shared = call.shared_cov

C12_Witness ==
    /\ call.op = "create"
    /\ call.shared_cov
    /\ call.cov_type \notin CovTypes
    /\ call.raised
    /\ ~nset.built

----------------------------------------------------------------------------
(* NormalSet with shared covariance: _split_natural_parameters.            *)
(* len(self) and self.dim, which the code reads off the expected value of  *)
(* the joint parameter, are the size and dim the set was created with.     *)

\* Length of the joint natural-parameter vector (the vector accumulate
\* builds for the joint parameter) of a set of `size` components of
\* dimension `dim`.
JointLen(cov_type, size, dim) ==
    CASE cov_type = "isotropic" -> 1 + size * dim + size + 1
      [] cov_type = "diagonal"  -> dim + size * dim + size + 1
      [] cov_type = "full"      -> dim * dim + size * dim + size + 1

SplitFailed == [ok |-> FALSE, shared |-> <<>>, percomp |-> <<>>]

\* The per-component block shared by the three variants:
\*     torch.cat([means.view(len(self), self.dim), scales.reshape(-1, 1)], dim=-1)
PerComponentBlock(means, scales, size, dim) ==
    IF ViewOk(means, size, dim) /\ scales # <<>> /\ Len(scales) = size
    THEN [ok |-> TRUE, val |-> CatRows(View(means, size, dim), ColumnOf(scales))]
    ELSE [ok |-> FALSE, val |-> <<>>]

IsotropicSplitShort(nparams, size, dim) ==
    LET b == PerComponentBlock(PySlice(nparams, 1, size * dim),
                               PySlice(nparams, -(size + 1), -1), size, dim)
    IN  IF PyIndexOk(nparams, 0) /\ b.ok
        THEN [ok |-> TRUE, shared |-> <<PyIndex(nparams, 0), PyIndex(nparams, -1)>>,
              percomp |-> b.val]
        ELSE SplitFailed

\* NormalSetSharedIsotropicCovariance._split_natural_parameters
IsotropicSplit(nparams, size, dim) ==
    LET b == PerComponentBlock(PySlice(nparams, 1, size * dim + 1),
                               PySlice(nparams, -(size + 1), -1), size, dim)
    IN  IF PyIndexOk(nparams, 0) /\ b.ok
        THEN [ok |-> TRUE, shared |-> <<PyIndex(nparams, 0), PyIndex(nparams, -1)>>,
              percomp |-> b.val]
        ELSE SplitFailed

\* NormalSetSharedDiagonalCovariance._split_natural_parameters
DiagonalSplit(nparams, size, dim) ==
    LET b == PerComponentBlock(PySlice(nparams, dim, dim * size + dim),
                               PySlice(nparams, -(size + 1), -1), size, dim)
    IN  IF PyIndexOk(nparams, -1) /\ b.ok
        THEN [ok |-> TRUE,
              shared |-> PySlice(nparams, 0, dim) \o <<PyIndex(nparams, -1)>>,
              percomp |-> b.val]
        ELSE SplitFailed

\* NormalSetSharedFullCovariance._split_natural_parameters
FullSplit(nparams, size, dim) ==
    LET start == dim * dim
        end == start + size * dim
        b == PerComponentBlock(PySlice(nparams, start, end),
                               PySlice(nparams, -(size + 1), -1), size, dim)
    IN  IF PyIndexOk(nparams, -1) /\ b.ok
        THEN [ok |-> TRUE,
              shared |-> PySlice(nparams, 0, dim * dim) \o <<PyIndex(nparams, -1)>>,
              percomp |-> b.val]
        ELSE SplitFailed

\* self._split_natural_parameters(nparams), dispatched on the concrete class.
SplitNaturalParameters(cov_type, nparams, size, dim) ==
    CASE cov_type = "isotropic" -> IsotropicSplit(nparams, size, dim)
      [] cov_type = "diagonal"  -> DiagonalSplit(nparams, size, dim)
      [] cov_type = "full"      -> FullSplit(nparams, size, dim)

\* A flat vector whose entry at position i is i.
Positions(len) == [i \in 1..len |-> i]

\* The operations below read the set and leave it as it is: a behaviour
\* applies one of them to the set it has built.
Fresh == nset.built /\ call.op = "create"

_split_natural_parameters(nparams) ==
    /\ Fresh /\ nset.shared
    /\ call' = [op |-> "split", nparams |-> nparams,
                res |-> SplitNaturalParameters(nset.cov_type, nparams,
                                               nset.size, nset.dim)]
    /\ UNCHANGED nset

InitSet ==
    /\ ParamInit(<<0, 0>>, <<0, 0>>, DefaultTag)
    /\ nset = NoSet
    /\ call = NoCall
    /\ NoParamSet
    /\ NoScorer

NextSplit ==
    \/ \E sh \in BOOLEAN, ct \in CovTypeArgs, k \in 1..SplitMaxK, d \in 1..SplitMaxD :
         create(sh, ct, k, d) /\ UNCHANGED <<pvars, cvars, bvars, mvars>>
    \/ \E slack \in (-MaxSlack)..MaxSlack :
         /\ Fresh /\ nset.shared
         /\ _split_natural_parameters(
                Positions(JointLen(nset.cov_type, nset.size, nset.dim) + slack))
         /\ UNCHANGED <<pvars, cvars, bvars, mvars>>

SpecSplit == InitSet /\ [][NextSplit]_vars

----------------------------------------------------------------------------
(* Claims about construction and _split_natural_parameters (SpecSplit).    *)

\* The flat vector packed back from the two blocks: the shared block's leading
\* entries, the components' means row by row, the components' last entries,
\* and the shared block's last entry.
JoinBlocks(shared, percomp, dim) ==
    PySlice(shared, 0, -1) \o Flatten(ColSlice(percomp, 0, dim))
        \o Column(percomp, dim) \o <<PyIndex(shared, -1)>>

Occurrences(s, x) == Cardinality({i \in DOMAIN s : s[i] = x})

\* C7: on a flat vector of the variant's length, _split_natural_parameters
\* succeeds, returns K per-component rows, places every position of the flat
\* vector exactly once in the two blocks, and the flat vector is recovered
\* from the blocks.
C7_SplitIsBijection ==
    (call.op = "split"
        /\ Len(call.nparams) = JointLen(nset.cov_type, nset.size, nset.dim))
    => /\ call.res.ok
       /\ Len(call.res.percomp) = nset.size
       /\ LET all == call.res.shared \o Flatten(call.res.percomp)
          IN  \A i \in DOMAIN call.nparams : Occurrences(all, call.nparams[i]) = 1
       /\ Len(call.res.shared) + Len(Flatten(call.res.percomp)) = Len(call.nparams)
       /\ JoinBlocks(call.res.shared, call.res.percomp, nset.dim) = call.nparams

C7_Witness ==
    /\ call.op = "split"
    /\ nset.cov_type = "full" /\ nset.size = 5 /\ nset.dim = 4
    /\ Len(call.nparams) = JointLen(nset.cov_type, nset.size, nset.dim)
    /\ call.res.ok

\* C9 as stated: any two distinct parameters of a built set have distinct
\* prior objects and distinct posterior objects.
C9_NoSharedDistribution ==
    nset.built =>
        \A i, j \in DOMAIN nset.params :
            i # j => /\ nset.params[i].prior # nset.params[j].prior
                     /\ nset.params[i].posterior # nset.params[j].posterior

\* C9 amended: the posterior objects of distinct parameters are distinct and
\* no posterior object is any parameter's prior; the parameters of a
\* non-shared set all reference one and the same prior object.
C9_PosteriorsOwnedPriorCommon ==
    nset.built =>
        \A i, j \in DOMAIN nset.params :
            /\ i # j => nset.params[i].posterior # nset.params[j].posterior
            /\ nset.params[i].posterior # nset.params[j].prior
            /\ nset.params[i].prior = nset.params[j].prior

C9_Witness ==
    /\ nset.built /\ ~nset.shared
    /\ Len(nset.params) >= 2
    /\ nset.params[1].prior = nset.params[2].prior

----------------------------------------------------------------------------
(* NormalSet: accumulate and expected_log_likelihood.                      *)

\* Width of a statistics row of a set of dimension `dim`: the width for which
\* the matrix products of expected_log_likelihood are defined.
StatsWidth(cov_type, dim) == JointLen(cov_type, 1, dim)

\* The key under which a dict holds parameter k: BayesianParameter defines
\* __hash__ only, so two keys are equal iff they are the same object.
ParamKeyByPrior(params, k) == params[k].prior
ParamKey(params, k) == k

\* dict(zip(keys, vals)): pairs up to the shorter length, a later pair
\* replacing an earlier one with an equal key.
DictZip(keys, vals) ==
    LET n == Min(Len(keys), Len(vals))
        final(x) == CHOOSE i \in 1..n :
                       keys[i] = x /\ \A j \in 1..n : keys[j] = x => j <= i
    IN  [x \in {keys[i] : i \in 1..n} |-> vals[final(x)]]

\* NormalSetNonSharedCovariance.accumulate:
\*     w_stats = weights.t() @ stats; dict(zip(self.means_precisions, w_stats))
NonSharedAccumulate(params, stats, weights) ==
    LET w_stats == TransposeMatMul(weights, stats)
    IN  [ok |-> TRUE,
         dict |-> DictZip([k \in 1..Len(params) |-> ParamKey(params, k)], w_stats)]

AccumulateFailed == [ok |-> FALSE, dict |-> <<>>]

\* The tail common to the three shared variants:
\*     w_stats[:, -2].view(-1), w_stats[:, -1].sum().view(1)
\* and the one-entry dict {self.means_precision: acc_stats}.
SharedAccStats(params, w_stats, head, means) ==
    IF \A r \in 1..Len(w_stats) : PyIndexOk(w_stats[r], -2)
    THEN [ok |-> TRUE,
          dict |-> [x \in {ParamKey(params, 1)} |->
                      head \o Flatten(means) \o Column(w_stats, -2)
                           \o <<SumSeq(Column(w_stats, -1))>>]]
    ELSE AccumulateFailed

\* NormalSetSharedIsotropicCovariance.accumulate
IsotropicAccumulate(params, stats, resps, dim) ==
    LET w_stats == TransposeMatMul(resps, stats)
    IN  IF \A r \in 1..Len(w_stats) : PyIndexOk(w_stats[r], 0)
        THEN SharedAccStats(params, w_stats, <<SumSeq(Column(w_stats, 0))>>,
                            ColSlice(w_stats, 1, 1 + dim))
        ELSE AccumulateFailed

DiagonalAccumulateShifted(params, stats, resps, dim) ==
    LET w_stats == TransposeMatMul(resps, stats)
    IN  SharedAccStats(params, w_stats, SumRows(ColSlice(w_stats, 0, dim)),
                       ColSlice(w_stats, dim + 1, 2 * dim + 1))

\* NormalSetSharedDiagonalCovariance.accumulate
DiagonalAccumulate(params, stats, resps, dim) ==
    LET w_stats == TransposeMatMul(resps, stats)
    IN  SharedAccStats(params, w_stats, SumRows(ColSlice(w_stats, 0, dim)),
                       ColSlice(w_stats, dim, 2 * dim))

\* NormalSetSharedFullCovariance.accumulate
FullAccumulate(params, stats, resps, dim) ==
    LET w_stats == TransposeMatMul(resps, stats)
    IN  SharedAccStats(params, w_stats, SumRows(ColSlice(w_stats, 0, dim * dim)),
                       ColSlice(w_stats, dim * dim, dim + dim * dim))

\* self.accumulate(stats, weights), dispatched on the concrete class.
Accumulate(set, stats, weights) ==
    IF ~set.shared THEN NonSharedAccumulate(set.params, stats, weights)
    ELSE CASE set.cov_type = "isotropic" ->
                  IsotropicAccumulate(set.params, stats, weights, set.dim)
           [] set.cov_type = "diagonal" ->
                  DiagonalAccumulate(set.params, stats, weights, set.dim)
           [] set.cov_type = "full" ->
                  FullAccumulate(set.params, stats, weights, set.dim)

SplitStatsFailed == [ok |-> FALSE, stats1 |-> <<>>, stats2 |-> <<>>]

\* The split of the statistics in NormalSetSharedIsotropicCovariance
\* .expected_log_likelihood: stats[:, (0, -1)], stats[:, 1:-1]
IsotropicSplitStats(stats, dim) ==
    IF \A n \in 1..Len(stats) : PyIndexOk(stats[n], 0)
    THEN [ok |-> TRUE,
          stats1 |-> [n \in 1..Len(stats) |->
                        <<PyIndex(stats[n], 0), PyIndex(stats[n], -1)>>],
          stats2 |-> ColSlice(stats, 1, -1)]
    ELSE SplitStatsFailed

DiagonalSplitStatsSquared(stats, dim) ==
    [ok |-> TRUE,
     stats1 |-> CatRows(ColSlice(stats, 0, dim * dim), ColumnOf(Column(stats, -1))),
     stats2 |-> ColSlice(stats, dim * dim, -1)]

\* NormalSetSharedDiagonalCovariance._split_stats
DiagonalSplitStats(stats, dim) ==
    IF \A n \in 1..Len(stats) : PyIndexOk(stats[n], -1)
    THEN [ok |-> TRUE,
          stats1 |-> CatRows(ColSlice(stats, 0, dim), ColumnOf(Column(stats, -1))),
          stats2 |-> ColSlice(stats, dim, -1)]
    ELSE SplitStatsFailed

\* NormalSetSharedFullCovariance._split_stats
FullSplitStats(stats, dim) ==
    IF \A n \in 1..Len(stats) : PyIndexOk(stats[n], -1)
    THEN [ok |-> TRUE,
          stats1 |-> CatRows(ColSlice(stats, 0, dim * dim),
                             ColumnOf(Column(stats, -1))),
          stats2 |-> ColSlice(stats, dim * dim, -1)]
    ELSE SplitStatsFailed

SplitStats(cov_type, stats, dim) ==
    CASE cov_type = "isotropic" -> IsotropicSplitStats(stats, dim)
      [] cov_type = "diagonal"  -> DiagonalSplitStats(stats, dim)
      [] cov_type = "full"      -> FullSplitStats(stats, dim)

\* expected_log_likelihood of the shared variants, nparams being the expected
\* natural parameters of the joint parameter:
\*     exp_llhs = (stats1 @ nparams1)[:, None] + stats2 @ nparams2.t()
\*     exp_llhs -= .5 * self.dim * math.log(2 * math.pi)
\* `inner` is exp_llhs before the constant is subtracted; the constant is
\* half_log_2pi_times * (.5 * log(2 * pi)).
SharedExpectedLogLikelihood(set, stats, nparams) ==
    LET s == SplitStats(set.cov_type, stats, set.dim)
        p == SplitNaturalParameters(set.cov_type, nparams, set.size, set.dim)
    IN  IF /\ s.ok /\ p.ok
           /\ Width(s.stats1) = Len(p.shared)
           /\ Width(s.stats2) = Width(p.percomp)
        THEN [ok |-> TRUE,
              inner |-> [n \in 1..Len(stats) |->
                           [k \in 1..Len(p.percomp) |->
                               Dot(s.stats1[n], p.shared)
                                   + Dot(s.stats2[n], p.percomp[k])]],
              half_log_2pi_times |-> set.dim]
        ELSE [ok |-> FALSE, inner |-> <<>>, half_log_2pi_times |-> set.dim]

MarginalFailed == [ok |-> FALSE, new_stats |-> <<>>, nparams1 |-> <<>>]

\* nparams1 of NormalSetSharedCovariance.marginal_log_likelihood: one row per
\* component,
\*     np1 = torch.ones(len(np2), 1) * np1.view(1, -1)
\*     torch.cat([np1[:, :-1], np2, np1[:, -1].view(-1, 1)], dim=1)
MarginalNparams1(np1, np2) ==
    [k \in 1..Len(np2) |-> PySlice(np1, 0, -1) \o np2[k] \o <<PyIndex(np1, -1)>>]

\* new_stats of marginal_log_likelihood, each entry with its divisor:
\*     torch.cat([stats[:, :int(self.dim ** 2)],
\*                stats[:, int(self.dim ** 2):-1] / len(self),
\*                stats[:, -1].view(-1, 1)], dim=-1)
MarginalNewStats(stats, size, dim) ==
    [n \in 1..Len(stats) |->
        [c \in 1..Len(PySlice(stats[n], 0, dim * dim)) |->
            [num |-> PySlice(stats[n], 0, dim * dim)[c], den |-> 1]]
        \o [c \in 1..Len(PySlice(stats[n], dim * dim, -1)) |->
            [num |-> PySlice(stats[n], dim * dim, -1)[c], den |-> size]]
        \o <<[num |-> PyIndex(stats[n], -1), den |-> 1]>>]

\* new_stats[:, None, :] + nparams1: the last dimensions must agree or one
\* of them be 1.
BroadcastOk(w1, w2) == w1 = w2 \/ w1 = 1 \/ w2 = 1

\* NormalSetSharedCovariance.marginal_log_likelihood up to the two
\* joint_log_norm calls; joint_nparams are the natural parameters of the
\* posterior of the joint parameter.
BaseMarginalLogLikelihood(set, stats, joint_nparams) ==
    LET p == SplitNaturalParameters(set.cov_type, joint_nparams, set.size, set.dim)
    IN  IF /\ p.ok /\ p.shared # <<>>
           /\ \A n \in 1..Len(stats) : PyIndexOk(stats[n], -1)
        THEN LET nparams1 == MarginalNparams1(p.shared, p.percomp)
                 new_stats == MarginalNewStats(stats, set.size, set.dim)
             IN  IF BroadcastOk(Width(new_stats), Width(nparams1))
                 THEN [ok |-> TRUE, new_stats |-> new_stats, nparams1 |-> nparams1]
                 ELSE MarginalFailed
        ELSE MarginalFailed

\* NormalSetSharedIsotropicCovariance.marginal_log_likelihood iterates over
\* self.means_precisions, an attribute NormalSetSharedCovariance.__init__
\* does not set: AttributeError.
IsotropicMarginalLogLikelihood(set, stats) == MarginalFailed

MarginalLogLikelihood(set, stats, joint_nparams) ==
    IF set.cov_type = "isotropic" THEN IsotropicMarginalLogLikelihood(set, stats)
    ELSE BaseMarginalLogLikelihood(set, stats, joint_nparams)

\* An N x S statistics matrix whose entries are pairwise distinct.
StatsMatrix(rows, width) ==
    [n \in 1..rows |-> [c \in 1..width |-> (n - 1) * width + c]]

\* Rows of a responsibility matrix: the one-hot rows and one graded row.
RespRows(size) ==
    {[k \in 1..size |-> IF k = j THEN 1 ELSE 0] : j \in 1..size}
        \cup {[k \in 1..size |-> k]}

accumulate(stats, weights) ==
    /\ Fresh
    /\ call' = [op |-> "accumulate", stats |-> stats, weights |-> weights,
                res |-> Accumulate(nset, stats, weights)]
    /\ UNCHANGED nset

expected_log_likelihood(stats, nparams) ==
    /\ Fresh /\ nset.shared
    /\ call' = [op |-> "expected_log_likelihood", stats |-> stats,
                nparams |-> nparams,
                res |-> SharedExpectedLogLikelihood(nset, stats, nparams)]
    /\ UNCHANGED nset

marginal_log_likelihood(stats) ==
    /\ Fresh /\ nset.shared
    /\ call' = [op |-> "marginal_log_likelihood", stats |-> stats,
                res |-> MarginalLogLikelihood(nset, stats,
                            Positions(JointLen(nset.cov_type, nset.size, nset.dim)))]
    /\ UNCHANGED nset

NextSet ==
    \/ \E sh \in BOOLEAN, ct \in CovTypeArgs, k \in 1..MaxK, d \in 1..MaxD :
         create(sh, ct, k, d) /\ UNCHANGED <<pvars, cvars, bvars, mvars>>
    \/ \E n \in 1..MaxN, slack \in (-MaxSlack)..MaxSlack :
         \E weights \in [1..n -> RespRows(IF nset.built THEN nset.size ELSE 1)] :
            /\ Fresh
            /\ accumulate(StatsMatrix(n, StatsWidth(nset.cov_type, nset.dim) + slack),
                          weights)
            /\ UNCHANGED <<pvars, cvars, bvars, mvars>>
    \/ \E n \in 1..MaxN, slack \in (-MaxSlack)..MaxSlack, pslack \in (-MaxSlack)..MaxSlack :
         /\ Fresh /\ nset.shared
         /\ expected_log_likelihood(
                StatsMatrix(n, StatsWidth(nset.cov_type, nset.dim) + slack),
                Positions(JointLen(nset.cov_type, nset.size, nset.dim) + pslack))
         /\ UNCHANGED <<pvars, cvars, bvars, mvars>>

    \/ \E n \in 1..MaxN, slack \in (-MaxSlack)..MaxSlack :
         /\ Fresh /\ nset.shared
         /\ marginal_log_likelihood(
                StatsMatrix(n, StatsWidth(nset.cov_type, nset.dim) + slack))
         /\ UNCHANGED <<pvars, cvars, bvars, mvars>>

SpecSet == InitSet /\ [][NextSet]_vars

----------------------------------------------------------------------------
(* Claims about accumulate and expected_log_likelihood (SpecSet).          *)

\* Row k of weights^T . stats, summed directly.
WeightedRow(stats, weights, k) ==
    [c \in 1..Width(stats) |->
        SumSeq([n \in 1..Len(stats) |-> weights[n][k] * stats[n][c]])]

OneHot(row) ==
    /\ \A k \in DOMAIN row : row[k] \in {0, 1}
    /\ Cardinality({k \in DOMAIN row : row[k] = 1}) = 1

\* With one-hot weights: the sum of the rows assigned to component k.
AssignedRows(stats, weights, k) ==
    [c \in 1..Width(stats) |->
        SumSeq([n \in 1..Len(stats) |-> IF weights[n][k] = 1 THEN stats[n][c] ELSE 0])]

\* C5: accumulate of a non-shared set of K components returns a mapping with
\* exactly K entries, the k-th parameter mapped to sum_n weights[n,k] * stats[n];
\* with one-hot weight rows, to the sum of exactly the rows assigned to k.
C5_NonSharedAccumulate ==
    (call.op = "accumulate" /\ ~nset.shared) =>
        /\ call.res.ok
        /\ DOMAIN call.res.dict = 1..nset.size
        /\ \A k \in 1..nset.size :
             /\ call.res.dict[k] = WeightedRow(call.stats, call.weights, k)
             /\ (\A n \in DOMAIN call.weights : OneHot(call.weights[n]))
                    => call.res.dict[k] = AssignedRows(call.stats, call.weights, k)

C5_Witness ==
    /\ call.op = "accumulate" /\ ~nset.shared
    /\ nset.size = 2 /\ Len(call.stats) = 2
    /\ call.weights = <<(<<0, 1>>), (<<1, 0>>)>>
    /\ call.res.dict[1] = call.stats[2]
    /\ call.res.dict[2] = call.stats[1]

\* C6: accumulate of a shared variant returns a one-entry mapping keyed by the
\* joint parameter; its vector has the joint layout's length, and
\* _split_natural_parameters of it gives the shared statistic columns summed
\* over the components and, as row k, component k's weighted per-component
\* statistic columns.
C6_SharedAccumulateLayout ==
    (call.op = "accumulate" /\ nset.shared
        /\ Width(call.stats) = StatsWidth(nset.cov_type, nset.dim))
    => /\ call.res.ok
       /\ DOMAIN call.res.dict = {1}
       /\ Len(call.res.dict[1]) = JointLen(nset.cov_type, nset.size, nset.dim)
       /\ LET w == [k \in 1..nset.size |->
                      WeightedRow(call.stats, call.weights, k)]
              s == SplitStats(nset.cov_type, w, nset.dim)
              p == SplitNaturalParameters(nset.cov_type, call.res.dict[1],
                                          nset.size, nset.dim)
          IN  /\ p.ok
              /\ p.shared = SumRows(s.stats1)
              /\ Len(p.percomp) = nset.size
              /\ \A k \in 1..nset.size : p.percomp[k] = s.stats2[k]

C6_Witness ==
    /\ call.op = "accumulate" /\ nset.shared
    /\ nset.cov_type = "diagonal" /\ nset.size = 2 /\ nset.dim = 2
    /\ Width(call.stats) = StatsWidth(nset.cov_type, nset.dim)
    /\ Len(call.stats) = 2
    /\ call.weights = <<(<<1, 2>>), (<<0, 1>>)>>
    /\ call.res.ok

C13_WrongLengthFails ==
    /\ (call.op = "accumulate" /\ nset.shared
           /\ Width(call.stats) # StatsWidth(nset.cov_type, nset.dim))
       => ~call.res.ok
    /\ (call.op = "expected_log_likelihood"
           /\ Width(call.stats) # StatsWidth(nset.cov_type, nset.dim))
       => ~SplitStats(nset.cov_type, call.stats, nset.dim).ok
    /\ (call.op = "expected_log_likelihood"
           /\ Len(call.nparams) # JointLen(nset.cov_type, nset.size, nset.dim))
       => ~SplitNaturalParameters(nset.cov_type, call.nparams,
                                  nset.size, nset.dim).ok

\* C14: in marginal_log_likelihood of the diagonal and full shared variants,
\* the columns left unscaled are the columns _split_stats puts in the shared
\* block and the columns divided by K are those of the per-component block,
\* and the rows of nparams1 have the width of a statistics row.
C14_MarginalBoundaryMatchesSplit ==
    (/\ call.op = "marginal_log_likelihood"
     /\ nset.cov_type \in {"diagonal", "full"}
     /\ Width(call.stats) = StatsWidth(nset.cov_type, nset.dim))
    => /\ call.res.ok
       /\ Width(call.res.nparams1) = Width(call.stats)
       /\ Width(call.res.new_stats) = Width(call.stats)
       /\ LET s == SplitStats(nset.cov_type, call.stats, nset.dim)
          IN  \A n \in 1..Len(call.stats) : \A c \in 1..Width(call.stats) :
                 LET x == call.res.new_stats[n][c]
                 IN  /\ x.num = call.stats[n][c]
                     /\ (\E j \in DOMAIN s.stats1[n] : s.stats1[n][j] = x.num)
                           => x.den = 1
                     /\ (\E j \in DOMAIN s.stats2[n] : s.stats2[n][j] = x.num)
                           => x.den = nset.size

----------------------------------------------------------------------------
(* Claims about the BayesianParameter machine (checked under SpecParam).   *)

\* C1: in every round (the first after construction and every later one), one
\* accumulate_natural_grad(acc_stats) followed by natural_grad_update(1) leaves
\* the posterior equal to prior + acc_stats.
C1_ConjugateEveryRound ==
    (last.op = "update" /\ last.lrate = <<1, 1>> /\ Len(lastround) = 1)
        => posterior = VAdd(prior, lastround[1])

\* What one round contributes, summed directly: sum_i (prior + s_i - posterior).
RECURSIVE RoundSum(_, _, _)
RoundSum(pr, po, ss) ==
    IF ss = <<>> THEN ZerosLike(pr)
    ELSE VAdd(VSub(VAdd(pr, Head(ss)), po), RoundSum(pr, po, Tail(ss)))

\* The accumulator after calling accumulate_natural_grad on ss, in that order.
RECURSIVE AccumulateAll(_, _, _, _)
AccumulateAll(grad, pr, po, ss) ==
    IF ss = <<>> THEN grad
    ELSE AccumulateAll(AccumulateNaturalGrad(grad, pr, po, Head(ss)), pr, po, Tail(ss))

\* C2: with no update in between, the accumulator has grown by exactly
\* sum_i (prior + s_i - posterior), and every permutation of the calls yields
\* the same accumulator.
C2_AccumulateAdditiveCommutative ==
    /\ natural_grad = VAdd(grad0, RoundSum(prior, posterior, accs))
    /\ \A p \in Orders(DOMAIN accs) :
         AccumulateAll(grad0, prior, posterior, [i \in DOMAIN accs |-> accs[p[i]]])
             = natural_grad

C2_Witness ==
    /\ Len(accs) >= 2
    /\ accs[1] # accs[2]
    /\ natural_grad # grad0

\* C3: natural_grad_update(lrate) sets the posterior to its previous value plus
\* lrate * natural_grad and changes neither the prior, the accumulator nor the
\* callback set; accumulate_natural_grad changes only natural_grad; the prior
\* is never changed by either.
C3_UpdateAndAccumulateFrame ==
    [][ /\ prior' = prior
        /\ last'.op = "update" =>
             /\ posterior' = VAdd(posterior, VScale(last'.lrate, natural_grad))
             /\ natural_grad' = natural_grad
             /\ callbacks' = callbacks
        /\ last'.op = "accumulate" =>
             /\ posterior' = posterior
             /\ callbacks' = callbacks
             /\ calls' = calls ]_vars

C3_Witness ==
    /\ last.op = "update"
    /\ last.lrate = <<1, 2>>
    /\ natural_grad # ZerosLike(natural_grad)
    /\ posterior # prior

\* C4: natural_grad_update invokes every registered callback exactly once, with
\* no arguments, after the posterior holds its new value; callbacks that are
\* not registered, and every other operation, invoke nothing.
C4_CallbacksOncePerUpdate ==
    [][ /\ last'.op = "update" =>
             \A c \in Callbacks :
                 /\ Invocations(fired', c) = (IF c \in callbacks THEN 1 ELSE 0)
                 /\ calls'[c] = calls[c] + (IF c \in callbacks THEN 1 ELSE 0)
                 /\ \A i \in DOMAIN fired' :
                      fired'[i].nargs = 0 /\ fired'[i].saw = posterior'
        /\ last'.op \in {"accumulate", "expected_value", "register"} =>
             /\ fired' = <<>>
             /\ calls' = calls ]_vars

C4_Witness ==
    /\ last.op = "update"
    /\ callbacks = Callbacks
    /\ Len(fired) = 2
    /\ \A c \in Callbacks : calls[c] = 1
    /\ natural_grad # ZerosLike(natural_grad)
    /\ \A i \in DOMAIN fired : fired[i].saw = posterior

====
